---- MODULE Spec2Model ----
(***************************************************************************)
(* Expense management front end: the expense lifecycle as the client       *)
(* drives it.  The client side (useExpenses composable, the expenses page, *)
(* the action modals, the domain services) is translated from the source.  *)
(* The Repository (the backend API behind the HttpClient) is not part of   *)
(* the source tree; it is modelled from sections 4.3 and 6 of the          *)
(* specification, with its threshold rule and authorization policy taken   *)
(* from the ApprovalWorkflow object of the business tests.                 *)
(***************************************************************************)
EXTENDS Integers, Sequences, FiniteSets, TLC

(* ------------------------------------------------------------------ *)
(* Bounds of the model                                                  *)
(* ------------------------------------------------------------------ *)
MaxExpenses == 1
MaxReasonLen == 1
MaxInflight == 1
MaxRetryCount == 2
MaxListRequests == 2
MaxListLen == 3
MaxAuthCalls == 2
MaxCreates == 2

(* ------------------------------------------------------------------ *)
(* Program constants                                                    *)
(* ------------------------------------------------------------------ *)
AUTO_APPROVAL_THRESHOLD == 1000000
MAX_EXPENSE_AMOUNT == 100000000
DefaultLimit == 10
FilterLimit == 20

PENDING_APPROVAL == "pending_approval"
AUTO_APPROVED == "auto_approved"
APPROVED == "approved"
REJECTED == "rejected"
ExpenseStatus == {PENDING_APPROVAL, AUTO_APPROVED, APPROVED, REJECTED}

PaymentStatus == {"pending", "processing", "paid", "failed"}
NoPayment == "none"

UserRole == {"employee", "manager", "admin"}

(* Text typed into the rejection dialog: strings over a blank and a      *)
(* letter, as sequences of characters.                                   *)
Chars == {" ", "x"}
Texts == UNION {[1..n -> Chars] : n \in 0..MaxReasonLen}
NoReason == <<"null">>

(* String.prototype.trim: drop leading and trailing blanks.              *)
RECURSIVE TrimStart(_)
TrimStart(s) == IF s # <<>> /\ Head(s) = " " THEN TrimStart(Tail(s)) ELSE s

RECURSIVE TrimEnd(_)
TrimEnd(s) ==
  IF s # <<>> /\ s[Len(s)] = " " THEN TrimEnd(SubSeq(s, 1, Len(s) - 1)) ELSE s

Trim(s) == TrimEnd(TrimStart(s))

(* ------------------------------------------------------------------ *)
(* Business rules (ApprovalWorkflow of the business tests)              *)
(* ------------------------------------------------------------------ *)
determineApprovalStatusInclusive(amount) ==
  IF amount <= AUTO_APPROVAL_THRESHOLD THEN "auto_approved" ELSE "pending"

(* The workflow's own status type writes PendingApproval as 'pending'.   *)
determineApprovalStatus(amount) ==
  IF amount < AUTO_APPROVAL_THRESHOLD THEN "auto_approved" ELSE "pending"

canApproveAnyAmount(userRole, expenseAmount) ==
  IF userRole = "admin" THEN TRUE
  ELSE IF userRole = "manager" THEN TRUE
  ELSE FALSE

canApprove(userRole, expenseAmount) ==
  IF userRole = "admin" THEN TRUE
  ELSE IF userRole = "manager" /\ expenseAmount >= AUTO_APPROVAL_THRESHOLD THEN TRUE
  ELSE FALSE

requiresManagerApproval(amount) == amount >= AUTO_APPROVAL_THRESHOLD

(* Permissions the session user carries, by role: managers and admins    *)
(* hold approve_expenses.                                                *)
RolePermissions(role) ==
  IF role \in {"manager", "admin"}
  THEN {"view_expenses", "create_expenses", "approve_expenses"}
  ELSE {"view_expenses", "create_expenses"}

(* ------------------------------------------------------------------ *)
(* State                                                                *)
(* ------------------------------------------------------------------ *)
VARIABLES
  repo,             \* Repository: the expense records, index = id
  user,             \* auth store: the session user (role, permissions)
  isAuthenticated,  \* auth store: isAuthenticated
  authCalls,        \* auth store: the actions awaiting a response
  creating,         \* create page: the createExpense calls awaiting their response
  expenses,         \* useExpenses state.expenses
  currentExpense,   \* useExpenses state.currentExpense
  pagination,       \* useExpenses state.pagination
  loading,          \* useExpenses state.loading
  submitting,       \* useExpenses state.submitting
  error,            \* useExpenses state.error
  searchParams,     \* useExpenses searchParams
  searchQuery,      \* expenses page: the text of the search box
  selectedExpense,  \* expenses page: id of the expense the open dialog is about
  showApproveModal, \* expenses page
  showRejectModal,  \* expenses page
  showRetryPaymentModal, \* expense list page
  cmd,              \* the command awaiting its response
  inflight,         \* list requests awaiting their response
  lastResult,       \* what the last finished operation returned to its caller
  formData,         \* useFormValidation formData (the expense form)
  fieldStates,      \* useFormValidation fieldStates: error and touched per field
  submission,       \* ExpenseForm: the data of the last 'submit' event emitted
  formResult,       \* the last call on the form: what validateForm returned, "reset" after resetForm
  accessToken,      \* browser: the access_token cookie
  refreshToken,     \* browser: the refresh_token cookie
  route,            \* router: the page the client is on
  request,          \* HTTP client: the request awaiting its response or the redirect
  thrown            \* HTTP client: what the last finished request gave its caller

clientVars == <<repo, user, isAuthenticated, authCalls, creating, expenses, currentExpense, pagination, loading,
                submitting, error, searchParams, searchQuery, selectedExpense,
                showApproveModal, showRejectModal, showRetryPaymentModal, cmd,
                inflight, lastResult>>

formVars == <<formData, fieldStates, submission, formResult>>

storeVars == <<isAuthenticated, authCalls>>

createVars == <<creating>>

httpVars == <<accessToken, refreshToken, route, request, thrown>>

vars == <<clientVars, formVars, httpVars>>

serverVars == <<repo>>
listVars == <<pagination, loading, searchParams, inflight>>
pageVars == <<selectedExpense, showApproveModal, showRejectModal,
              showRetryPaymentModal>>

NoExpense == [id |-> 0, amount |-> 0, expenseStatus |-> "none", processedAt |-> "undefined"]
NoCmd == [op |-> "none", id |-> 0, amount |-> 0, reason |-> NoReason, page |-> FALSE]
NoResult == [op |-> "none", outcome |-> "none"]
NoSelection == 0
NoError == "null"

Ids == 1..Len(repo)

(* ------------------------------------------------------------------ *)
(* Repository (Backend API), sections 4.3 and 6                          *)
(* ------------------------------------------------------------------ *)
Saturate(n) == IF n < MaxRetryCount THEN n + 1 ELSE MaxRetryCount

(* The workflow's status in the vocabulary of the API (expense_status).  *)
ApiStatus(workflowStatus) ==
  IF workflowStatus = "pending" THEN PENDING_APPROVAL ELSE workflowStatus

NewRecord(amount) ==
  LET st == ApiStatus(determineApprovalStatus(amount)) IN
  [amount |-> amount,
   status |-> st,
   paymentStatus |-> IF st = AUTO_APPROVED THEN "pending" ELSE NoPayment,
   rejectionReason |-> NoReason,
   processed_at |-> "",
   processedBy |-> "none",
   retries |-> 0]

RepoCreate(r, amount) == [err |-> NoError, repo |-> Append(r, NewRecord(amount))]

RepoUpdate(r, id, amount) ==
  IF r[id].status # PENDING_APPROVAL
  THEN [err |-> "InvalidTransition", repo |-> r]
  ELSE [err |-> NoError, repo |-> [r EXCEPT ![id].amount = amount]]

RepoApprove(r, id, role) ==
  IF r[id].status # PENDING_APPROVAL
  THEN [err |-> "InvalidTransition", repo |-> r]
  ELSE IF ~canApprove(role, r[id].amount)
  THEN [err |-> "Unauthorized", repo |-> r]
  ELSE [err |-> NoError,
        repo |-> [r EXCEPT ![id].status = APPROVED,
                           ![id].processed_at = "t",
                           ![id].processedBy = role,
                           ![id].paymentStatus = "pending"]]

RepoReject(r, id, role, reason) ==
  IF r[id].status # PENDING_APPROVAL
  THEN [err |-> "InvalidTransition", repo |-> r]
  ELSE IF ~canApprove(role, r[id].amount)
  THEN [err |-> "Unauthorized", repo |-> r]
  ELSE [err |-> NoError,
        repo |-> [r EXCEPT ![id].status = REJECTED,
                           ![id].processed_at = "t",
                           ![id].processedBy = role,
                           ![id].rejectionReason = reason]]

RepoRetryPaymentUnlessPaid(r, id) ==
  IF r[id].paymentStatus \in {"paid", NoPayment}
  THEN [err |-> "InvalidTransition", repo |-> r]
  ELSE [err |-> NoError,
        repo |-> [r EXCEPT ![id].paymentStatus = "processing",
                           ![id].retries = Saturate(@)]]

RepoRetryPayment(r, id) ==
  IF r[id].paymentStatus # "failed"
  THEN [err |-> "InvalidTransition", repo |-> r]
  ELSE [err |-> NoError,
        repo |-> [r EXCEPT ![id].paymentStatus = "processing",
                           ![id].retries = Saturate(@)]]

(* The record as the API returns it (ApiExpense).                        *)
ApiExpense(r, id) ==
  [id |-> id,
   amount_idr |-> r[id].amount,
   expense_status |-> r[id].status,
   processed_at |-> r[id].processed_at]

(* GET /expenses: the records, newest first, with the page echoed.       *)
RepoList(r) == [i \in 1..Len(r) |-> ApiExpense(r, Len(r) + 1 - i)]

RepoGetExpenses(r, params) ==
  [expenses |-> RepoList(r), limit |-> params.limit, offset |-> 0]

(* ------------------------------------------------------------------ *)
(* Domain services (services/domain/expense.ts)                         *)
(* ------------------------------------------------------------------ *)
transformApiExpense(apiExpense) ==
  [id |-> apiExpense.id,
   amount |-> apiExpense.amount_idr,
   expenseStatus |-> apiExpense.expense_status,
   processedAt |-> IF apiExpense.processed_at # "" THEN "date" ELSE "undefined"]

(* ------------------------------------------------------------------ *)
(* HttpClient (services/api/client.ts): message of the ApiError thrown  *)
(* for a failed request                                                 *)
(* ------------------------------------------------------------------ *)
ErrorStatus(err) == IF err = "Unauthorized" THEN 403 ELSE 409

ApiErrorMessageGeneric(err) ==
  IF ErrorStatus(err) = 403 THEN "Access forbidden" ELSE "Request failed"

ApiErrorMessage(err) ==
  IF ErrorStatus(err) = 403 THEN "Access forbidden" ELSE err

NetworkErrorMessage == "Network error"

(* ------------------------------------------------------------------ *)
(* useExpenses composable                                               *)
(* ------------------------------------------------------------------ *)
DefaultParams == [search |-> "", limit |-> DefaultLimit, offset |-> 0]

canLoadMoreInclusive ==
  IF pagination.total # 0
  THEN (pagination.offset + pagination.limit) <= pagination.total
  ELSE FALSE

canLoadMore ==
  IF pagination.total # 0
  THEN (pagination.offset + pagination.limit) < pagination.total
  ELSE FALSE

(* Array.prototype.findIndex(e => e.id === id), 0 standing for -1.       *)
findIndex(list, id) ==
  IF \E i \in 1..Len(list) : list[i].id = id
  THEN CHOOSE i \in 1..Len(list) :
         list[i].id = id /\ \A j \in 1..(i - 1) : list[j].id # id
  ELSE 0

UpdateInListAtHead(list, id, expense) ==
  IF list # <<>> THEN [list EXCEPT ![1] = expense] ELSE list

(* "Update in list": the entry with this id is replaced by the record    *)
(* the Repository returned.                                              *)
UpdateInList(list, id, expense) ==
  LET index == findIndex(list, id) IN
  IF index # 0 THEN [list EXCEPT ![index] = expense] ELSE list

UpdateCurrent(current, id, expense) ==
  IF current # NoExpense /\ current.id = id THEN expense ELSE current

(* ------------------------------------------------------------------ *)
(* Expenses page (pages/expenses/index.vue) and action modals           *)
(* ------------------------------------------------------------------ *)
canApproveExpenses == "approve_expenses" \in user.permissions

canApproveExpenseAnyStatus(expense) ==
  /\ canApproveExpenses
  /\ expense.amount >= AUTO_APPROVAL_THRESHOLD

canApproveExpense(expense) ==
  /\ expense.expenseStatus = PENDING_APPROVAL
  /\ canApproveExpenses
  /\ expense.amount >= AUTO_APPROVAL_THRESHOLD

canRejectExpense(expense) ==
  /\ expense.expenseStatus = PENDING_APPROVAL
  /\ canApproveExpenses
  /\ expense.amount >= AUTO_APPROVAL_THRESHOLD

pendingApprovalExpenses ==
  {i \in 1..Len(expenses) :
     /\ expenses[i].expenseStatus = PENDING_APPROVAL
     /\ expenses[i].amount >= AUTO_APPROVAL_THRESHOLD}

(* find(e => e.id === expenseId) || null                                 *)
Find(list, id) ==
  IF findIndex(list, id) # 0 THEN list[findIndex(list, id)] ELSE NoExpense

NoModalOpen == ~showApproveModal /\ ~showRejectModal /\ ~showRetryPaymentModal

IsBlankUntrimmed(text) == text = <<>>

(* !rejectionReason.trim(): the reason field holds no text.              *)
IsBlank(text) == Trim(text) = <<>>

(* ------------------------------------------------------------------ *)
(* Expense form: useFormValidation and useExpenseFormValidation          *)
(* ------------------------------------------------------------------ *)
MIN_DESCRIPTION_LENGTH == 5
MAX_DESCRIPTION_LENGTH == 500

Fields == {"description", "amount", "category", "expenseDate", "receiptFile"}

(* A string, by its runs: lead spaces, a core that neither starts nor    *)
(* ends with a space (core = 0: no such character), trail spaces.        *)
Str(lead, core, trail) == [lead |-> lead, core |-> core, trail |-> trail]
StrLength(str) == str.lead + str.core + str.trail
StrTrim(str) == IF str.core = 0 THEN Str(0, 0, 0) ELSE Str(0, str.core, 0)

(* null is the empty sequence, a value v the sequence <<v>>.             *)
Null == <<>>
Some(v) == <<v>>
IsNull(value) == value = <<>>
ValueOf(value) == value[1]

(* Dates and the clock count half days from the midnight that starts     *)
(* today: 0 today 00:00, 1 today 12:00, 2 tomorrow 00:00.                *)
Clock == {0, 1}
EndOfToday == 1
OneYear == 2 * 365
SixMonths == 2 * 183

(* The values a field takes while the other fields are edited too *)
FieldValues(field) ==
  CASE field = "description" -> {Str(0, 0, 0), Str(0, 2, 0), Str(0, 5, 0)}
    [] field = "amount" -> {Null, Some(0 - 1), Some(MAX_EXPENSE_AMOUNT)}
    [] field = "category" -> {Str(0, 0, 0), Str(0, 6, 0)}
    [] field = "expenseDate" -> {Null, Some(0), Some(2)}
    [] field = "receiptFile" ->
         {Null,
          Some([url |-> "u", filename |-> "f", error |-> ""]),
          Some([url |-> "u", filename |-> "f", error |-> "e"])}

(* The values a field takes while it is the only field edited *)
Descriptions ==
  {Str(0, 0, 0), Str(2, 0, 0), Str(0, 2, 0), Str(0, 4, 0), Str(1, 4, 1),
   Str(0, 5, 0), Str(1, 5, 1), Str(0, MAX_DESCRIPTION_LENGTH, 0),
   Str(1, MAX_DESCRIPTION_LENGTH - 1, 1), Str(0, MAX_DESCRIPTION_LENGTH + 1, 0)}
FormAmounts ==
  {Null, Some(0 - 1), Some(0), Some(1), Some(AUTO_APPROVAL_THRESHOLD),
   Some(MAX_EXPENSE_AMOUNT), Some(MAX_EXPENSE_AMOUNT + 1)}
Categories == {Str(0, 0, 0), Str(1, 0, 0), Str(0, 6, 0)}
Dates ==
  {Null, Some(0 - OneYear - 2), Some(0 - OneYear), Some(0 - 400),
   Some(0 - SixMonths), Some(0 - 2), Some(0), Some(1), Some(2), Some(3)}
Receipts ==
  {Null,
   Some([url |-> "u", filename |-> "f", error |-> ""]),
   Some([url |-> "u", filename |-> "f", error |-> "e"]),
   Some([url |-> "", filename |-> "f", error |-> ""]),
   Some([url |-> "u", filename |-> "", error |-> ""])}

AllFieldValues(field) ==
  CASE field = "description" -> Descriptions
    [] field = "amount" -> FormAmounts
    [] field = "category" -> Categories
    [] field = "expenseDate" -> Dates
    [] field = "receiptFile" -> Receipts

initialState ==
  [description |-> Str(0, 0, 0), amount |-> Null, category |-> Str(0, 0, 0),
   expenseDate |-> Null, receiptFile |-> Null]

(* The rules useExpenseFormValidation adds, per field in the order added *)
RuleCount(field) ==
  CASE field = "description" -> 3
    [] field = "amount" -> 2
    [] field = "category" -> 1
    [] field = "expenseDate" -> 3
    [] field = "receiptFile" -> 1

descriptionRequired(value) == StrLength(StrTrim(value)) > 0

descriptionMinLengthUntrimmed(value) == StrLength(value) >= MIN_DESCRIPTION_LENGTH

descriptionMinLength(value) == StrLength(StrTrim(value)) >= MIN_DESCRIPTION_LENGTH

descriptionMaxLength(value) == StrLength(value) <= MAX_DESCRIPTION_LENGTH

amountPositive(value) == ~IsNull(value) /\ ValueOf(value) > 0

amountMaxExclusive(value) ==
  IsNull(value) \/ ValueOf(value) < MAX_EXPENSE_AMOUNT

amountMax(value) ==
  IsNull(value) \/ ValueOf(value) <= MAX_EXPENSE_AMOUNT

categoryRequired(value) == StrLength(StrTrim(value)) > 0

dateRequired(value) == ~IsNull(value)

dateNotFutureByNow(value, now) ==
  IF IsNull(value) THEN FALSE ELSE ValueOf(value) <= now

(* today.setHours(23, 59, 59, 999): the end of today, whatever now is    *)
dateNotFuture(value, now) ==
  IF IsNull(value) THEN FALSE ELSE ValueOf(value) <= EndOfToday

(* oneYearAgo: now, one year back                                        *)
dateNotTooOld(value, now) ==
  IF IsNull(value) THEN FALSE ELSE ValueOf(value) >= now - OneYear

receiptCompleteIgnoringError(value) ==
  IF IsNull(value) THEN TRUE
  ELSE ValueOf(value).url # "" /\ ValueOf(value).filename # ""

receiptComplete(value) ==
  IF IsNull(value) THEN TRUE
  ELSE /\ ValueOf(value).error = ""
       /\ ValueOf(value).url # ""
       /\ ValueOf(value).filename # ""

validate(field, k, value, now) ==
  CASE field = "description" /\ k = 1 -> descriptionRequired(value)
    [] field = "description" /\ k = 2 -> descriptionMinLength(value)
    [] field = "description" /\ k = 3 -> descriptionMaxLength(value)
    [] field = "amount" /\ k = 1 -> amountPositive(value)
    [] field = "amount" /\ k = 2 -> amountMax(value)
    [] field = "category" /\ k = 1 -> categoryRequired(value)
    [] field = "expenseDate" /\ k = 1 -> dateRequired(value)
    [] field = "expenseDate" /\ k = 2 -> dateNotFuture(value, now)
    [] field = "expenseDate" /\ k = 3 -> dateNotTooOld(value, now)
    [] field = "receiptFile" /\ k = 1 -> receiptComplete(value)

message(field, k) ==
  CASE field = "description" /\ k = 1 -> "Description is required"
    [] field = "description" /\ k = 2 -> "Description must be at least 5 characters"
    [] field = "description" /\ k = 3 -> "Description must be less than 500 characters"
    [] field = "amount" /\ k = 1 -> "Amount must be greater than 0"
    [] field = "amount" /\ k = 2 -> "Amount must be less than 100.000.000"
    [] field = "category" /\ k = 1 -> "Category is required"
    [] field = "expenseDate" /\ k = 1 -> "Expense date is required"
    [] field = "expenseDate" /\ k = 2 -> "Expense date cannot be in the future"
    [] field = "expenseDate" /\ k = 3 -> "Expense date cannot be more than 1 year ago"
    [] field = "receiptFile" /\ k = 1 -> "Receipt file upload failed or is incomplete"

Failing(field, value, now) ==
  {k \in 1..RuleCount(field) : ~validate(field, k, value, now)}

(* validateField: the message of the first rule that fails, or null      *)
FieldError(field, value, now) ==
  LET failing == Failing(field, value, now) IN
  IF failing = {} THEN NoError
  ELSE message(field, CHOOSE k \in failing : \A j \in failing : k <= j)

validateField(states, data, field, now) ==
  [states EXCEPT ![field].error = FieldError(field, data[field], now)]

FieldOrder == <<"description", "amount", "category", "expenseDate", "receiptFile">>

validateFormShortCircuit(states, data, now) ==
  LET bad == {i \in 1..Len(FieldOrder) :
                FieldError(FieldOrder[i], data[FieldOrder[i]], now) # NoError}
      stop == IF bad = {} THEN Len(FieldOrder)
              ELSE CHOOSE i \in bad : \A j \in bad : i <= j
  IN [f \in Fields |->
        IF \E i \in 1..stop : FieldOrder[i] = f
        THEN [error |-> FieldError(f, data[f], now), touched |-> states[f].touched]
        ELSE states[f]]

validateForm(states, data, now) ==
  [f \in Fields |->
     [error |-> FieldError(f, data[f], now), touched |-> states[f].touched]]

(* validateForm's return value: isValid, false once a field had an error *)
Returned(states) ==
  IF \A f \in Fields : states[f].error = NoError THEN "valid" ELSE "invalid"

touchAll(states) == [f \in Fields |-> [states[f] EXCEPT !.touched = TRUE]]

getFieldError(field) ==
  IF fieldStates[field].touched THEN fieldStates[field].error ELSE NoError

hasFieldError(field) == getFieldError(field) # NoError

hasErrors == \E f \in Fields : fieldStates[f].error # NoError

isFormValid == ~hasErrors /\ Cardinality(DOMAIN formData) > 0

NoSubmission == <<>>

(* The amounts typed into the create form: none, zero, just below and   *)
(* at the threshold, above the maximum.                                  *)
SubmittedAmounts ==
  {Null, Some(0), Some(AUTO_APPROVAL_THRESHOLD - 1),
   Some(AUTO_APPROVAL_THRESHOLD), Some(MAX_EXPENSE_AMOUNT + 1)}

(* The amounts a caller hands to updateExpense: none, just below and at  *)
(* the threshold.                                                        *)
UpdatedAmounts ==
  {Null, Some(AUTO_APPROVAL_THRESHOLD - 1), Some(AUTO_APPROVAL_THRESHOLD)}

(* amount_idr: formData.amount || 0 *)
amountIdr(amount) ==
  IF IsNull(amount) \/ ValueOf(amount) = 0 THEN 0 ELSE ValueOf(amount)

FormInit ==
  /\ formData = initialState
  /\ fieldStates = [f \in Fields |-> [error |-> NoError, touched |-> FALSE]]
  /\ submission = NoSubmission
  /\ formResult = "none"

(* ------------------------------------------------------------------ *)
(* HTTP clients and the session cookies                                  *)
(* ------------------------------------------------------------------ *)
NoCookie == "none"
Token == "token"
NullString == "null"
Clients == {"HttpClient", "ApiClient"}
Statuses == {200, 401, 403, 500}
NoStatus == 0 - 1

Idle == [phase |-> "idle", client |-> "none", auth |-> FALSE]
NothingThrown == [client |-> "none", response |-> 0, status |-> NoStatus, message |-> "none"]

getAuthTokenOfAnyString == IF accessToken # NoCookie THEN Some(accessToken) ELSE Null

(* getAuthToken(): the cookie's value, or null when there is no cookie  *)
(* or it holds the string 'null'                                        *)
getAuthToken ==
  IF accessToken # NoCookie /\ accessToken # NullString
  THEN Some(accessToken)
  ELSE Null

(* The error a client throws for a response that is not ok: an ApiError *)
(* with the response's status from HttpClient, a plain Error from       *)
(* ApiClient                                                            *)
Failure(client, response) ==
  [client |-> client,
   response |-> response,
   status |-> IF client = "HttpClient" THEN response ELSE NoStatus,
   message |-> CASE response = 401 -> "Authentication failed"
                 [] response = 403 -> "Access forbidden"
                 [] response = 500 /\ client = "ApiClient" -> "Server error"
                 [] OTHER -> "Request failed"]

(* The error a client throws when an authenticated request finds no     *)
(* token: an ApiError of status 401 from HttpClient, a plain Error from *)
(* ApiClient; no response was received                                  *)
NoTokenFailure(client) ==
  [client |-> client,
   response |-> 0,
   status |-> IF client = "HttpClient" THEN 401 ELSE NoStatus,
   message |-> "No authentication token available"]

Returned200(client) ==
  [client |-> client, response |-> 200, status |-> NoStatus, message |-> "none"]

NetworkFailure(client) ==
  [client |-> client,
   response |-> 0,
   status |-> IF client = "HttpClient" THEN 0 ELSE NoStatus,
   message |-> "Network error"]

HttpInit ==
  /\ accessToken = NoCookie
  /\ refreshToken = NoCookie
  /\ route = "/login"
  /\ request = Idle
  /\ thrown = NothingThrown

(* ------------------------------------------------------------------ *)
(* Initial state: the composable and the page right after construction  *)
(* ------------------------------------------------------------------ *)
Init ==
  /\ repo = <<>>
  /\ user \in {[role |-> r, permissions |-> RolePermissions(r)] : r \in UserRole}
  /\ isAuthenticated = TRUE
  /\ authCalls = <<>>
  /\ creating = <<>>
  /\ expenses = <<>>
  /\ currentExpense = NoExpense
  /\ pagination = [limit |-> DefaultLimit, offset |-> 0, total |-> 0]
  /\ loading = FALSE
  /\ submitting = FALSE
  /\ error = NoError
  /\ searchParams = DefaultParams
  /\ searchQuery = ""
  /\ selectedExpense = NoSelection
  /\ showApproveModal = FALSE
  /\ showRejectModal = FALSE
  /\ showRetryPaymentModal = FALSE
  /\ cmd = NoCmd
  /\ inflight = <<>>
  /\ lastResult = NoResult
  /\ FormInit
  /\ HttpInit

(* ------------------------------------------------------------------ *)
(* Issuing a command: the part of the composable action before await    *)
(* ------------------------------------------------------------------ *)
Begin(op, id, amount, reason, page) ==
  /\ cmd = NoCmd
  /\ cmd' = [op |-> op, id |-> id, amount |-> amount, reason |-> reason, page |-> page]
  /\ submitting' = TRUE
  /\ error' = NoError

closeModals ==
  /\ showApproveModal' = FALSE
  /\ showRejectModal' = FALSE
  /\ showRetryPaymentModal' = FALSE
  /\ selectedExpense' = NoSelection

(* createExpense(expenseData), called by the create page with the data   *)
(* of a validated form                                                   *)
CreateExpense ==
  \E amount \in SubmittedAmounts :
    /\ Len(repo) < MaxExpenses
    /\ \A now \in Clock : FieldError("amount", amount, now) = NoError
    /\ Begin("create", 0, amountIdr(amount), NoReason, FALSE)
    /\ UNCHANGED <<repo, user, searchQuery, storeVars, createVars, formVars, httpVars, expenses, currentExpense, listVars, pageVars, lastResult>>

(* updateExpense(id, updates): no form stands before it                  *)
UpdateExpense ==
  \E id \in Ids, amount \in UpdatedAmounts :
    /\ Begin("update", id, amountIdr(amount), NoReason, FALSE)
    /\ UNCHANGED <<repo, user, searchQuery, storeVars, createVars, formVars, httpVars, expenses, currentExpense, listVars, pageVars, lastResult>>

(* Approve button of a listed expense: confirmApprove(expense.id)        *)
confirmApprove ==
  \E i \in 1..Len(expenses) :
    /\ NoModalOpen
    /\ canApproveExpense(expenses[i])
    /\ selectedExpense' = Find(expenses, expenses[i].id).id
    /\ showApproveModal' = TRUE
    /\ UNCHANGED <<repo, user, searchQuery, storeVars, createVars, formVars, httpVars, expenses, currentExpense, listVars, submitting, error,
                   showRejectModal, showRetryPaymentModal, cmd, lastResult>>

(* Reject button of a listed expense: confirmReject(expense.id)          *)
confirmReject ==
  \E i \in 1..Len(expenses) :
    /\ NoModalOpen
    /\ canRejectExpense(expenses[i])
    /\ selectedExpense' = Find(expenses, expenses[i].id).id
    /\ showRejectModal' = TRUE
    /\ UNCHANGED <<repo, user, searchQuery, storeVars, createVars, formVars, httpVars, expenses, currentExpense, listVars, submitting, error,
                   showApproveModal, showRetryPaymentModal, cmd, lastResult>>

(* Retry button of a listed expense: _confirmRetryPayment(expense.id)    *)
confirmRetryPayment ==
  \E i \in 1..Len(expenses) :
    /\ NoModalOpen
    /\ selectedExpense' = Find(expenses, expenses[i].id).id
    /\ showRetryPaymentModal' = TRUE
    /\ UNCHANGED <<repo, user, searchQuery, storeVars, createVars, formVars, httpVars, expenses, currentExpense, listVars, submitting, error,
                   showApproveModal, showRejectModal, cmd, lastResult>>

(* Cancel button or backdrop of a dialog: closeModals()                  *)
Cancel ==
  /\ ~NoModalOpen
  /\ closeModals
  /\ UNCHANGED <<repo, user, searchQuery, storeVars, createVars, formVars, httpVars, expenses, currentExpense, listVars, submitting, error,
                 cmd, lastResult>>

(* Approve dialog: handleApprove emits confirm-approve, the page's       *)
(* approveExpense issues the command for the selected expense            *)
handleApprove ==
  /\ showApproveModal
  /\ ~submitting
  /\ Len(inflight) < MaxInflight
  /\ IF selectedExpense = NoSelection
     THEN UNCHANGED <<cmd, submitting, error>>
     ELSE Begin("approve", selectedExpense, 0, NoReason, TRUE)
  /\ UNCHANGED <<repo, user, searchQuery, storeVars, createVars, formVars, httpVars, expenses, currentExpense, listVars, pageVars, lastResult>>

(* Reject dialog: handleReject runs with the text of the reason field;   *)
(* it emits confirm-reject only for a reason that is not blank, and the  *)
(* page's rejectExpense then issues the command                          *)
handleReject ==
  \E text \in Texts :
    /\ showRejectModal
    /\ ~submitting
    /\ Len(inflight) < MaxInflight
    /\ IF ~IsBlank(text)
       THEN IF selectedExpense = NoSelection
            THEN UNCHANGED <<cmd, submitting, error, lastResult>>
            ELSE /\ Begin("reject", selectedExpense, 0, Trim(text), TRUE)
                 /\ UNCHANGED lastResult
       ELSE /\ lastResult' = [op |-> "reject", outcome |-> "ignored"]
            /\ UNCHANGED <<cmd, submitting, error>>
    /\ UNCHANGED <<repo, user, searchQuery, storeVars, createVars, formVars, httpVars, expenses, currentExpense, listVars, pageVars>>

(* Retry payment dialog: the page's retryPayment issues the command      *)
retryPayment ==
  /\ showRetryPaymentModal
  /\ ~submitting
  /\ IF selectedExpense = NoSelection
     THEN UNCHANGED <<cmd, submitting, error>>
     ELSE Begin("retry", selectedExpense, 0, NoReason, FALSE)
  /\ UNCHANGED <<repo, user, searchQuery, storeVars, createVars, formVars, httpVars, expenses, currentExpense, listVars, pageVars, lastResult>>

(* ------------------------------------------------------------------ *)
(* Completion of a command: the Repository handles the request and the  *)
(* composable action resumes after its await                            *)
(* ------------------------------------------------------------------ *)
Handle(c) ==
  CASE c.op = "create" -> RepoCreate(repo, c.amount)
    [] c.op = "update" -> RepoUpdate(repo, c.id, c.amount)
    [] c.op = "approve" -> RepoApprove(repo, c.id, user.role)
    [] c.op = "reject" -> RepoReject(repo, c.id, user.role, c.reason)
    [] c.op = "retry" -> RepoRetryPayment(repo, c.id)

TargetId(c, r) == IF c.op = "create" THEN Len(r) ELSE c.id

Remove(seq, i) == SubSeq(seq, 1, i - 1) \o SubSeq(seq, i + 1, Len(seq))

(* refreshExpenses(): loadExpenses(searchParams.value) up to its await   *)
StartLoad(params) ==
  /\ loading' = TRUE
  /\ inflight' = Append(inflight, [kind |-> "load", params |-> params])

CommandSucceeds ==
  /\ cmd # NoCmd
  /\ Handle(cmd).err = NoError
  /\ LET res == Handle(cmd)
         id == TargetId(cmd, res.repo)
         expense == transformApiExpense(ApiExpense(res.repo, id))
     IN /\ repo' = res.repo
        /\ expenses' = IF cmd.op = "create"
                       THEN <<expense>> \o expenses
                       ELSE UpdateInList(expenses, id, expense)
        /\ currentExpense' = IF cmd.op = "create"
                             THEN expense
                             ELSE UpdateCurrent(currentExpense, id, expense)
        /\ lastResult' = [op |-> cmd.op, outcome |-> "ok"]
  /\ submitting' = FALSE
  /\ cmd' = NoCmd
  /\ IF cmd.page
     THEN /\ StartLoad(searchParams)
          /\ error' = NoError
          /\ closeModals
          /\ UNCHANGED <<pagination, searchParams>>
     ELSE /\ error' = error
          /\ IF cmd.op = "retry"
             THEN closeModals
             ELSE UNCHANGED pageVars
          /\ UNCHANGED listVars
  /\ UNCHANGED <<user, searchQuery, storeVars, createVars, formVars, httpVars>>

CommandRejectedSilently ==
  /\ cmd # NoCmd
  /\ Handle(cmd).err # NoError
  /\ error' = NoError
  /\ lastResult' = [op |-> cmd.op, outcome |-> Handle(cmd).err]
  /\ submitting' = FALSE
  /\ cmd' = NoCmd
  /\ UNCHANGED <<repo, user, searchQuery, storeVars, createVars, formVars, httpVars, expenses, currentExpense, listVars, pageVars>>

(* The Repository refuses the command: the composable records the        *)
(* message and rethrows, the page handler logs it                        *)
CommandRejected ==
  /\ cmd # NoCmd
  /\ Handle(cmd).err # NoError
  /\ error' = ApiErrorMessage(Handle(cmd).err)
  /\ lastResult' = [op |-> cmd.op, outcome |-> Handle(cmd).err]
  /\ submitting' = FALSE
  /\ cmd' = NoCmd
  /\ UNCHANGED <<repo, user, searchQuery, storeVars, createVars, formVars, httpVars, expenses, currentExpense, listVars, pageVars>>

(* The request fails in transport (network error or timeout), before or  *)
(* after the Repository has handled it                                   *)
CommandFails ==
  \E handled \in BOOLEAN :
    /\ cmd # NoCmd
    /\ repo' = IF handled THEN Handle(cmd).repo ELSE repo
    /\ error' = NetworkErrorMessage
    /\ lastResult' = [op |-> cmd.op, outcome |-> "NetworkError"]
    /\ submitting' = FALSE
    /\ cmd' = NoCmd
    /\ UNCHANGED <<user, searchQuery, storeVars, createVars, formVars, httpVars, expenses, currentExpense, listVars, pageVars>>

(* ------------------------------------------------------------------ *)
(* Loading the list                                                     *)
(* ------------------------------------------------------------------ *)
(* loadExpenses() on mount and refreshExpenses() from "Try Again"        *)
loadExpenses ==
  /\ Len(inflight) + (IF cmd.page THEN 1 ELSE 0) < MaxInflight
  /\ StartLoad(searchParams)
  /\ error' = NoError
  /\ UNCHANGED <<repo, user, searchQuery, storeVars, createVars, formVars, httpVars, expenses, currentExpense, pagination, searchParams,
                 submitting, pageVars, cmd, lastResult>>

LoadSucceeds ==
  \E i \in 1..Len(inflight) :
    LET result == RepoGetExpenses(repo, inflight[i].params) IN
    /\ expenses' = [j \in 1..Len(result.expenses) |->
                      transformApiExpense(result.expenses[j])]
    /\ pagination' = [limit |-> result.limit, offset |-> result.offset,
                      total |-> Len(result.expenses)]
    /\ searchParams' = inflight[i].params
    /\ loading' = FALSE
    /\ inflight' = Remove(inflight, i)
    /\ UNCHANGED <<repo, user, searchQuery, storeVars, createVars, formVars, httpVars, currentExpense, submitting, error, pageVars, cmd,
                   lastResult>>

LoadFails ==
  \E i \in 1..Len(inflight) :
    /\ error' = NetworkErrorMessage
    /\ loading' = FALSE
    /\ inflight' = Remove(inflight, i)
    /\ UNCHANGED <<repo, user, searchQuery, storeVars, createVars, formVars, httpVars, expenses, currentExpense, pagination, searchParams,
                   submitting, pageVars, cmd, lastResult>>

(* ------------------------------------------------------------------ *)
(* Environment: other users of the Repository and the payment           *)
(* collaborator                                                         *)
(* ------------------------------------------------------------------ *)
(* The other users acting on the Repository are managers.                *)
OtherRoles == {"manager"}

OtherApproves ==
  \E id \in Ids, role \in OtherRoles :
    /\ RepoApprove(repo, id, role).err = NoError
    /\ repo' = RepoApprove(repo, id, role).repo
    /\ UNCHANGED <<user, searchQuery, storeVars, createVars, formVars, httpVars, expenses, currentExpense, listVars, submitting, error,
                   pageVars, cmd, lastResult>>

OtherRejects ==
  \E id \in Ids, role \in OtherRoles, text \in Texts :
    /\ ~IsBlank(text)
    /\ RepoReject(repo, id, role, Trim(text)).err = NoError
    /\ repo' = RepoReject(repo, id, role, Trim(text)).repo
    /\ UNCHANGED <<user, searchQuery, storeVars, createVars, formVars, httpVars, expenses, currentExpense, listVars, submitting, error,
                   pageVars, cmd, lastResult>>

PaymentProgress ==
  \E id \in Ids, next \in PaymentStatus :
    /\ \/ repo[id].paymentStatus = "pending" /\ next = "processing"
       \/ repo[id].paymentStatus = "processing" /\ next \in {"paid", "failed"}
    /\ repo' = [repo EXCEPT ![id].paymentStatus = next]
    /\ UNCHANGED <<user, searchQuery, storeVars, createVars, formVars, httpVars, expenses, currentExpense, listVars, submitting, error,
                   pageVars, cmd, lastResult>>

Next ==
  \/ CreateExpense
  \/ UpdateExpense
  \/ confirmApprove
  \/ confirmReject
  \/ confirmRetryPayment
  \/ Cancel
  \/ handleApprove
  \/ handleReject
  \/ retryPayment
  \/ CommandSucceeds
  \/ CommandRejected
  \/ CommandFails
  \/ loadExpenses
  \/ LoadSucceeds
  \/ LoadFails
  \/ OtherApproves
  \/ OtherRejects
  \/ PaymentProgress

Spec == Init /\ [][Next]_vars

TypeOK ==
  /\ Len(repo) <= MaxExpenses
  /\ \A id \in Ids : repo[id].status \in ExpenseStatus
  /\ submitting = (cmd # NoCmd)
  /\ Len(inflight) <= MaxInflight

(* ------------------------------------------------------------------ *)
(* The expense list on its own: searches, reloads and load-more against *)
(* a Repository whose records do not change                             *)
(* ------------------------------------------------------------------ *)
Queries == {"", "x"}

(* The records whose text contains the search term: every record for no *)
(* term, the second record for the term "x"                             *)
Matches(id, search) == search = "" \/ id = 2

(* GET /expenses: a page of the matching records, newest first, with    *)
(* the limit and the offset the Repository reports. The client sends no *)
(* offset, and the Repository may cap the page size.                    *)
ListResponses(r, params) ==
  LET rows == SelectSeq(RepoList(r), LAMBDA e : Matches(e.id, params.search)) IN
  {[expenses |-> [j \in 1..n |-> transformApiExpense(rows[j])],
    limit |-> l, offset |-> o] :
      n \in 0..Len(rows), l \in {1, 2, params.limit}, o \in {0, 1}}

(* buildSearchParams() and searchExpenses(params): loadExpenses merges  *)
(* the new parameters over searchParams; a blank search box sets no     *)
(* search key                                                           *)
applyFilters ==
  \E q \in Queries :
    /\ Len(inflight) < MaxListRequests
    /\ searchQuery' = q
    /\ StartLoad([search |-> IF q # "" THEN q ELSE searchParams.search,
                  limit |-> FilterLimit, offset |-> 0])
    /\ error' = NoError
    /\ UNCHANGED <<repo, user, storeVars, createVars, formVars, httpVars, expenses, currentExpense,
                   pagination, searchParams, submitting, pageVars, cmd, lastResult>>

(* refreshExpenses(), and loadExpenses() on mount                        *)
refreshExpenses ==
  /\ Len(inflight) < MaxListRequests
  /\ StartLoad(searchParams)
  /\ error' = NoError
  /\ UNCHANGED <<repo, user, searchQuery, storeVars, createVars, formVars, httpVars, expenses, currentExpense,
                 pagination, searchParams, submitting, pageVars, cmd, lastResult>>

(* loadMoreExpenses(), up to its await                                   *)
loadMoreExpenses ==
  /\ Len(inflight) < MaxListRequests
  /\ Len(expenses) < MaxListLen
  /\ canLoadMore /\ ~loading
  /\ loading' = TRUE
  /\ inflight' = Append(inflight,
       [kind |-> "more",
        params |-> [searchParams EXCEPT
                      !.offset = pagination.offset + pagination.limit]])
  /\ UNCHANGED <<repo, user, searchQuery, storeVars, createVars, formVars, httpVars, expenses, currentExpense,
                 pagination, searchParams, submitting, error, pageVars, cmd, lastResult>>

(* loadExpenses() after its await                                        *)
ListLoadSucceeds ==
  \E i \in 1..Len(inflight) :
    \E result \in ListResponses(repo, inflight[i].params) :
      /\ inflight[i].kind = "load"
      /\ expenses' = result.expenses
      /\ pagination' = [limit |-> result.limit, offset |-> result.offset,
                        total |-> Len(result.expenses)]
      /\ searchParams' = inflight[i].params
      /\ loading' = FALSE
      /\ inflight' = Remove(inflight, i)
      /\ UNCHANGED <<repo, user, searchQuery, storeVars, createVars, formVars, httpVars, currentExpense,
                     submitting, error, pageVars, cmd, lastResult>>

Replaced(list, page) == page

(* state.expenses.push(...result.expenses)                               *)
Pushed(list, page) == list \o page

(* loadMoreExpenses() after its await                                    *)

LoadMoreSucceeds ==
  \E i \in 1..Len(inflight) :
    \E result \in ListResponses(repo, inflight[i].params) :
      /\ inflight[i].kind = "more"
      /\ expenses' = Pushed(expenses, result.expenses)
      /\ pagination' =
           [limit |-> result.limit, offset |-> result.offset,
            total |-> IF pagination.total # 0
                      THEN pagination.total + Len(result.expenses)
                      ELSE Len(result.expenses)]
      /\ searchParams' = inflight[i].params
      /\ loading' = FALSE
      /\ inflight' = Remove(inflight, i)
      /\ UNCHANGED <<repo, user, searchQuery, storeVars, createVars, formVars, httpVars, currentExpense,
                     submitting, error, pageVars, cmd, lastResult>>

ListNext ==
  \/ applyFilters
  \/ refreshExpenses
  \/ loadMoreExpenses
  \/ ListLoadSucceeds
  \/ LoadMoreSucceeds
  \/ LoadFails

(* The Repository holds two expenses, the second created last; the      *)
(* detail page may have loaded the first (getExpenseById)               *)
TwoExpensesInit ==
  \E first, second \in {AUTO_APPROVAL_THRESHOLD - 1, AUTO_APPROVAL_THRESHOLD},
     payment \in {"pending", "failed"} :
    /\ repo = <<IF first < AUTO_APPROVAL_THRESHOLD
                THEN [NewRecord(first) EXCEPT !.paymentStatus = payment]
                ELSE NewRecord(first),
                NewRecord(second)>>
    /\ user \in {[role |-> r, permissions |-> RolePermissions(r)] : r \in UserRole}
    /\ isAuthenticated = TRUE
    /\ authCalls = <<>>
    /\ creating = <<>>
    /\ expenses = <<>>
    /\ currentExpense \in {NoExpense, transformApiExpense(ApiExpense(repo, 1))}
    /\ pagination = [limit |-> DefaultLimit, offset |-> 0, total |-> 0]
    /\ loading = FALSE
    /\ submitting = FALSE
    /\ error = NoError
    /\ searchParams = DefaultParams
    /\ searchQuery = ""
    /\ selectedExpense = NoSelection
    /\ showApproveModal = FALSE
    /\ showRejectModal = FALSE
    /\ showRetryPaymentModal = FALSE
    /\ cmd = NoCmd
    /\ inflight = <<>>
    /\ lastResult = NoResult
    /\ FormInit
    /\ HttpInit

ListInit ==
  /\ TwoExpensesInit
  /\ \A id \in Ids : repo[id].paymentStatus # "failed"
  /\ user.role = "employee"
  /\ currentExpense = NoExpense

ListSpec == ListInit /\ [][ListNext]_vars

(* The searches and load-mores of the page, without its refreshes       *)
SearchNext ==
  \/ applyFilters
  \/ loadMoreExpenses
  \/ ListLoadSucceeds
  \/ LoadMoreSucceeds
  \/ LoadFails

SearchSpec == ListInit /\ [][SearchNext]_vars

(* ------------------------------------------------------------------ *)
(* A manager's commands on two expenses that exist already              *)
(* ------------------------------------------------------------------ *)
CommandNext ==
  \/ UpdateExpense
  \/ confirmApprove
  \/ confirmReject
  \/ confirmRetryPayment
  \/ Cancel
  \/ handleApprove
  \/ handleReject
  \/ retryPayment
  \/ CommandSucceeds
  \/ CommandRejected
  \/ CommandFails
  \/ loadExpenses
  \/ LoadSucceeds
  \/ LoadFails

(* The first expense was auto-approved and its payment has failed, the  *)
(* second awaits approval                                               *)
CommandInit ==
  /\ TwoExpensesInit
  /\ user.role = "manager"
  /\ repo[1].paymentStatus = "failed"
  /\ repo[2].status = PENDING_APPROVAL

CommandSpec == CommandInit /\ [][CommandNext]_vars

(* ------------------------------------------------------------------ *)
(* The expense form on its own                                          *)
(* ------------------------------------------------------------------ *)
(* v-model input into a field; the deep watcher of formData then         *)
(* validates every touched field                                         *)
InputTo(field, value, now) ==
  /\ value # formData[field]
  /\ formData' = [formData EXCEPT ![field] = value]
  /\ fieldStates' =
       [f \in Fields |->
          IF fieldStates[f].touched
          THEN validateField(fieldStates, formData', f, now)[f]
          ELSE fieldStates[f]]
  /\ formResult' = "none"
  /\ UNCHANGED <<clientVars, httpVars, submission>>

Input ==
  \E field \in Fields, now \in Clock :
    \E value \in FieldValues(field) : InputTo(field, value, now)

(* the same input, into a form whose other fields are as initialised     *)
InputAlone ==
  \E field \in Fields, now \in Clock :
    \E value \in AllFieldValues(field) :
      /\ \A g \in Fields \ {field} : formData[g] = initialState[g]
      /\ InputTo(field, value, now)

(* @blur of an input *)
touchField ==
  \E field \in Fields :
    /\ ~fieldStates[field].touched
    /\ fieldStates' = [fieldStates EXCEPT ![field].touched = TRUE]
    /\ formResult' = "none"
    /\ UNCHANGED <<clientVars, httpVars, formData, submission>>

(* validateForm() as ExpenseForm exposes it to its parent               *)
exposedValidateForm ==
  \E now \in Clock :
    /\ fieldStates' = validateForm(fieldStates, formData, now)
    /\ formResult' = Returned(fieldStates')
    /\ UNCHANGED <<clientVars, httpVars, formData, submission>>

(* submit of the form: touch every field, validate, emit when valid      *)
handleSubmit ==
  \E now \in Clock :
    LET checked == validateForm(touchAll(fieldStates), formData, now) IN
    /\ fieldStates' = checked
    /\ formResult' = Returned(checked)
    /\ submission' =
         IF Returned(checked) = "valid"
         THEN <<[description |-> formData.description, amount |-> formData.amount]>>
         ELSE submission
    /\ UNCHANGED <<clientVars, httpVars, formData>>

resetFormKeepingStates ==
  /\ formData' = initialState
  /\ formResult' = "reset"
  /\ UNCHANGED <<clientVars, httpVars, fieldStates, submission>>

resetForm ==
  /\ formData' = initialState
  /\ formResult' = "reset"
  /\ fieldStates' = [f \in Fields |-> [error |-> NoError, touched |-> FALSE]]
  /\ UNCHANGED <<clientVars, httpVars, submission>>

FormNext ==
  \/ Input
  \/ touchField
  \/ handleSubmit
  \/ resetForm

FormSpecInit == Init /\ user.role = "employee"

FormSpec == FormSpecInit /\ [][FormNext]_vars

FieldNext ==
  \/ InputAlone
  \/ touchField
  \/ exposedValidateForm
  \/ handleSubmit
  \/ resetForm

FieldSpec == FormSpecInit /\ [][FieldNext]_vars

FormTypeOK ==
  /\ \A f \in Fields : formData[f] \in AllFieldValues(f)
  /\ \A f \in Fields : fieldStates[f].touched \in BOOLEAN
  /\ Len(submission) <= 1

(* ------------------------------------------------------------------ *)
(* The create page: the expense form and createExpense                  *)
(* ------------------------------------------------------------------ *)
(* useFormValidation: isSubmitting = ref(false), assigned nowhere        *)
isSubmitting == FALSE

(* the submit button: :disabled="!isFormValid || isSubmitting"           *)
submitDisabled == ~isFormValid \/ isSubmitting

(* Submit of the form on the create page: ExpenseForm's handleSubmit     *)
(* emits the data of a valid form, the page's handleSubmit calls         *)
(* createExpense, which runs up to its await                             *)
submitExpenseForm ==
  \E now \in Clock :
    LET checked == validateForm(touchAll(fieldStates), formData, now) IN
    /\ ~submitDisabled
    /\ Len(repo) + Len(creating) < MaxCreates
    /\ fieldStates' = checked
    /\ formResult' = Returned(checked)
    /\ IF Returned(checked) = "valid"
       THEN /\ submission' = <<[description |-> formData.description,
                                amount |-> formData.amount]>>
            /\ creating' = Append(creating, amountIdr(formData.amount))
            /\ submitting' = TRUE
            /\ error' = NoError
       ELSE UNCHANGED <<submission, creating, submitting, error>>
    /\ UNCHANGED <<repo, user, searchQuery, storeVars, formData, httpVars, expenses,
                   currentExpense, listVars, pageVars, cmd, lastResult>>

(* createExpense() after its await: the new expense heads the list       *)
ExpenseCreated ==
  \E i \in 1..Len(creating) :
    LET res == RepoCreate(repo, creating[i])
        expense == transformApiExpense(ApiExpense(res.repo, Len(res.repo)))
    IN /\ repo' = res.repo
       /\ expenses' = <<expense>> \o expenses
       /\ currentExpense' = expense
       /\ submitting' = FALSE
       /\ creating' = Remove(creating, i)
       /\ lastResult' = [op |-> "create", outcome |-> "ok"]
       /\ UNCHANGED <<user, searchQuery, storeVars, formVars, httpVars, error,
                      listVars, pageVars, cmd>>

(* the create request fails in transport                                 *)
CreateFails ==
  \E i \in 1..Len(creating) :
    /\ error' = NetworkErrorMessage
    /\ submitting' = FALSE
    /\ creating' = Remove(creating, i)
    /\ lastResult' = [op |-> "create", outcome |-> "NetworkError"]
    /\ UNCHANGED <<repo, user, searchQuery, storeVars, formVars, httpVars, expenses,
                   currentExpense, listVars, pageVars, cmd>>

CreateNext ==
  \/ Input
  \/ touchField
  \/ submitExpenseForm
  \/ ExpenseCreated
  \/ CreateFails

CreateSpec == FormSpecInit /\ [][CreateNext]_vars

(* ------------------------------------------------------------------ *)
(* The HTTP clients on their own                                         *)
(* ------------------------------------------------------------------ *)
(* auth store login(): both cookies are stored with what the response   *)
(* holds, any string; the login page then moves on to the expenses      *)
login ==
  /\ route = "/login"
  /\ request = Idle
  /\ accessToken' \in {Token, NullString}
  /\ refreshToken' = Token
  /\ route' = "/expenses"
  /\ UNCHANGED <<clientVars, formVars, request, thrown>>

(* The browser drops a cookie whose maxAge has passed: the access token *)
(* after 24 hours, the refresh token after 7 days                       *)
CookieExpires ==
  /\ accessToken # NoCookie
  /\ accessToken' = NoCookie
  /\ refreshToken' \in {refreshToken, NoCookie}
  /\ UNCHANGED <<clientVars, formVars, route, request, thrown>>

(* request(), up to its fetch: an authenticated request without a token *)
(* fails at once                                                        *)
Request ==
  \E client \in Clients, shouldAuth \in BOOLEAN :
    /\ request = Idle
    /\ IF shouldAuth /\ IsNull(getAuthToken)
       THEN /\ thrown' = NoTokenFailure(client)
            /\ UNCHANGED request
       ELSE /\ request' = [phase |-> "sent", client |-> client, auth |-> shouldAuth]
            /\ UNCHANGED thrown
    /\ UNCHANGED <<clientVars, formVars, accessToken, refreshToken, route>>

(* handleAuthError(), up to its await of navigateTo: both cookies are   *)
(* cleared                                                              *)
handleAuthError ==
  /\ accessToken' = NoCookie
  /\ refreshToken' = NoCookie

(* The response arrives: 401 starts the session-expired flow, any other *)
(* status that is not ok is thrown at once                              *)
Response ==
  \E response \in Statuses :
    /\ request.phase = "sent"
    /\ IF response = 401
       THEN /\ handleAuthError
            /\ request' = [request EXCEPT !.phase = "redirecting"]
            /\ UNCHANGED thrown
       ELSE /\ thrown' = IF response = 200
                         THEN Returned200(request.client)
                         ELSE Failure(request.client, response)
            /\ request' = Idle
            /\ UNCHANGED <<accessToken, refreshToken>>
    /\ UNCHANGED <<clientVars, formVars, route>>

(* navigateTo('/login') is over and the 401 failure is thrown           *)
Redirected ==
  /\ request.phase = "redirecting"
  /\ route' = "/login"
  /\ thrown' = Failure(request.client, 401)
  /\ request' = Idle
  /\ UNCHANGED <<clientVars, formVars, accessToken, refreshToken>>

(* fetch rejects: network error or timeout                              *)
RequestFails ==
  /\ request.phase = "sent"
  /\ thrown' = NetworkFailure(request.client)
  /\ request' = Idle
  /\ UNCHANGED <<clientVars, formVars, accessToken, refreshToken, route>>

HttpNext ==
  \/ login
  \/ CookieExpires
  \/ Request
  \/ Response
  \/ Redirected
  \/ RequestFails

HttpSpec == FormSpecInit /\ [][HttpNext]_vars

(* ------------------------------------------------------------------ *)
(* The auth store on its own (stores/auth.ts): each action runs from    *)
(* one await to the next                                                *)
(* ------------------------------------------------------------------ *)
NoUser == [role |-> "none", permissions |-> {}]
Profile == [role |-> "employee", permissions |-> RolePermissions("employee")]

(* What a request of the store comes to: answered, failed, or answered   *)
(* with 401, for which the HTTP client clears the cookies and moves to   *)
(* the login page before it throws                                       *)
ApiOutcomes == {"ok", "error", "unauthorized"}

appVars == <<repo, creating, expenses, currentExpense, pagination, loading, submitting,
             error, searchParams, searchQuery, selectedExpense,
             showApproveModal, showRejectModal, showRetryPaymentModal, cmd,
             inflight>>

Awaits(i, what) ==
  /\ i \in 1..Len(authCalls)
  /\ authCalls[i].await = what

(* the action returns to its caller                                      *)
Returns(i, value) ==
  /\ lastResult' = [op |-> authCalls[i].op, outcome |-> value]
  /\ authCalls' = Remove(authCalls, i)

clearSessionKeepingRefresh ==
  /\ user' = NoUser
  /\ isAuthenticated' = FALSE
  /\ accessToken' = NoCookie
  /\ UNCHANGED refreshToken

clearSessionKeepingFlag ==
  /\ user' = NoUser
  /\ UNCHANGED isAuthenticated
  /\ accessToken' = NoCookie
  /\ refreshToken' = NoCookie

(* logout(), after its try block: the store and the cookies are cleared  *)
clearSession ==
  /\ user' = NoUser
  /\ isAuthenticated' = FALSE
  /\ accessToken' = NoCookie
  /\ refreshToken' = NoCookie

(* this.logout() called in a catch block, after a request that came to   *)
(* this outcome: the logout request is sent when a token is still stored *)
ThenLogout(i, outcome) ==
  IF outcome = "error" /\ accessToken # NoCookie
  THEN /\ authCalls' = [authCalls EXCEPT ![i].await = "logout"]
       /\ UNCHANGED <<user, isAuthenticated, accessToken, refreshToken, route,
                      lastResult>>
  ELSE /\ authCalls' = [authCalls EXCEPT ![i].await = "navigate"]
       /\ clearSession
       /\ route' = IF outcome = "unauthorized" THEN "/login" ELSE route
       /\ UNCHANGED lastResult

(* login(credentials), up to its await of the login request              *)
storeLogin ==
  /\ Len(authCalls) < MaxAuthCalls
  /\ authCalls' = Append(authCalls, [op |-> "login", await |-> "login", sent |-> TRUE])
  /\ UNCHANGED <<appVars, formVars, user, isAuthenticated, httpVars, lastResult>>

(* fetchUser(), up to its await of the profile; without a token the      *)
(* request fails before it is sent                                       *)
storeFetchUser ==
  /\ Len(authCalls) < MaxAuthCalls
  /\ authCalls' = Append(authCalls,
       [op |-> "fetchUser", await |-> "me", sent |-> accessToken # NoCookie])
  /\ UNCHANGED <<appVars, formVars, user, isAuthenticated, httpVars, lastResult>>

(* checkAuth(): false without a token, else fetchUser()                  *)
storeCheckAuth ==
  /\ Len(authCalls) < MaxAuthCalls
  /\ IF accessToken = NoCookie
     THEN /\ lastResult' = [op |-> "checkAuth", outcome |-> "false"]
          /\ UNCHANGED authCalls
     ELSE /\ authCalls' = Append(authCalls,
               [op |-> "checkAuth", await |-> "me", sent |-> TRUE])
          /\ UNCHANGED lastResult
  /\ UNCHANGED <<appVars, formVars, user, isAuthenticated, httpVars>>

(* refreshToken(): false without a refresh token, else the request       *)
storeRefreshToken ==
  /\ Len(authCalls) < MaxAuthCalls
  /\ IF refreshToken = NoCookie
     THEN /\ lastResult' = [op |-> "refreshToken", outcome |-> "false"]
          /\ UNCHANGED authCalls
     ELSE /\ authCalls' = Append(authCalls,
               [op |-> "refreshToken", await |-> "refresh", sent |-> TRUE])
          /\ UNCHANGED lastResult
  /\ UNCHANGED <<appVars, formVars, user, isAuthenticated, httpVars>>

(* logout(): the logout request when a token is stored, else straight to *)
(* the clearing                                                          *)
storeLogout ==
  /\ Len(authCalls) < MaxAuthCalls
  /\ IF accessToken # NoCookie
     THEN /\ authCalls' = Append(authCalls,
               [op |-> "logout", await |-> "logout", sent |-> TRUE])
          /\ UNCHANGED <<user, isAuthenticated, accessToken, refreshToken>>
     ELSE /\ authCalls' = Append(authCalls,
               [op |-> "logout", await |-> "navigate", sent |-> FALSE])
          /\ clearSession
  /\ UNCHANGED <<appVars, formVars, route, request, thrown, lastResult>>

(* login() after the login request: the cookies are stored and the       *)
(* profile is fetched, or false is returned                              *)
LoginAnswered ==
  \E i \in 1..Len(authCalls), outcome \in ApiOutcomes :
    /\ Awaits(i, "login")
    /\ IF outcome = "ok"
       THEN /\ accessToken' = Token
            /\ refreshToken' = Token
            /\ authCalls' = [authCalls EXCEPT ![i].await = "me"]
            /\ UNCHANGED <<route, lastResult>>
       ELSE /\ Returns(i, "false")
            /\ accessToken' = IF outcome = "unauthorized" THEN NoCookie ELSE accessToken
            /\ refreshToken' = IF outcome = "unauthorized" THEN NoCookie ELSE refreshToken
            /\ route' = IF outcome = "unauthorized" THEN "/login" ELSE route
    /\ UNCHANGED <<appVars, formVars, user, isAuthenticated, request, thrown>>

(* what the action returns once its fetchUser() has returned: login      *)
(* does not look at what fetchUser returned                              *)
AfterFetchUser(op, fetched) ==
  IF op = "login" THEN "true" ELSE IF fetched THEN "true" ELSE "false"

(* fetchUser() after the profile request; handleLogin moves on to the    *)
(* expenses when login returned true                                     *)
ProfileAnswered ==
  \E i \in 1..Len(authCalls), outcome \in ApiOutcomes :
    /\ Awaits(i, "me")
    /\ authCalls[i].sent \/ outcome = "error"
    /\ IF outcome = "ok"
       THEN /\ user' = Profile
            /\ isAuthenticated' = TRUE
            /\ Returns(i, AfterFetchUser(authCalls[i].op, TRUE))
            /\ route' = IF authCalls[i].op = "login" THEN "/expenses" ELSE route
            /\ UNCHANGED <<accessToken, refreshToken>>
       ELSE ThenLogout(i, outcome)
    /\ UNCHANGED <<appVars, formVars, request, thrown>>

(* refreshToken() after the refresh request                              *)
RefreshAnswered ==
  \E i \in 1..Len(authCalls), outcome \in ApiOutcomes :
    /\ Awaits(i, "refresh")
    /\ IF outcome = "ok"
       THEN /\ accessToken' = Token
            /\ refreshToken' = Token
            /\ Returns(i, "true")
            /\ UNCHANGED <<user, isAuthenticated, route>>
       ELSE ThenLogout(i, outcome)
    /\ UNCHANGED <<appVars, formVars, request, thrown>>

(* logout() after the logout request, whatever became of it              *)
LogoutAnswered ==
  \E i \in 1..Len(authCalls), outcome \in ApiOutcomes :
    /\ Awaits(i, "logout")
    /\ authCalls' = [authCalls EXCEPT ![i].await = "navigate"]
    /\ clearSession
    /\ route' = IF outcome = "unauthorized" THEN "/login" ELSE route
    /\ UNCHANGED <<appVars, formVars, request, thrown, lastResult>>

(* navigateTo('/login') of logout() is over and the action returns;      *)
(* handleLogin moves on to the expenses when login returned true         *)
NavigatedToLogin ==
  \E i \in 1..Len(authCalls) :
    /\ Awaits(i, "navigate")
    /\ Returns(i, IF authCalls[i].op = "logout" THEN "undefined"
                  ELSE AfterFetchUser(authCalls[i].op, FALSE))
    /\ route' = IF authCalls[i].op = "login" THEN "/expenses" ELSE "/login"
    /\ UNCHANGED <<appVars, formVars, user, isAuthenticated, accessToken,
                   refreshToken, request, thrown>>

StoreNext ==
  \/ storeLogin
  \/ storeFetchUser
  \/ storeCheckAuth
  \/ storeRefreshToken
  \/ storeLogout
  \/ LoginAnswered
  \/ ProfileAnswered
  \/ RefreshAnswered
  \/ LogoutAnswered
  \/ NavigatedToLogin
  \/ CookieExpires

(* The store as created: nobody is logged in                             *)
StoreInit ==
  /\ repo = <<>>
  /\ user = NoUser
  /\ isAuthenticated = FALSE
  /\ authCalls = <<>>
  /\ creating = <<>>
  /\ expenses = <<>>
  /\ currentExpense = NoExpense
  /\ pagination = [limit |-> DefaultLimit, offset |-> 0, total |-> 0]
  /\ loading = FALSE
  /\ submitting = FALSE
  /\ error = NoError
  /\ searchParams = DefaultParams
  /\ searchQuery = ""
  /\ selectedExpense = NoSelection
  /\ showApproveModal = FALSE
  /\ showRejectModal = FALSE
  /\ showRetryPaymentModal = FALSE
  /\ cmd = NoCmd
  /\ inflight = <<>>
  /\ lastResult = NoResult
  /\ FormInit
  /\ HttpInit

StoreSpec == StoreInit /\ [][StoreNext]_vars

(* ------------------------------------------------------------------ *)
(* Vocabulary of the properties                                         *)
(* ------------------------------------------------------------------ *)
(* The step in which the command op returns to its caller.               *)
Completes(op) == cmd.op = op /\ cmd' = NoCmd

(* ... with an answer of the Repository, not a transport failure.        *)
Answered(op) == Completes(op) /\ lastResult'.outcome # "NetworkError"

Terminal == {AUTO_APPROVED, APPROVED, REJECTED}

(* The authorization matrix as section 4.2 states it.                    *)
PolicyAllows(role, amount) ==
  \/ role = "admin"
  \/ role = "manager" /\ amount >= AUTO_APPROVAL_THRESHOLD

(* The initial status as section 4.3 states it.                          *)
InitialStatus(amount) ==
  IF amount < AUTO_APPROVAL_THRESHOLD THEN AUTO_APPROVED ELSE PENDING_APPROVAL

AmountSamples ==
  {1, 50000, 500000, AUTO_APPROVAL_THRESHOLD - 1, AUTO_APPROVAL_THRESHOLD,
   AUTO_APPROVAL_THRESHOLD + 1, 2000000, MAX_EXPENSE_AMOUNT}

(* ------------------------------------------------------------------ *)
(* C1: the status a submission starts in is AutoApproved for an amount  *)
(* below the threshold and PendingApproval for an amount at or above    *)
(* it, in the Repository record and in the record the client inserts at *)
(* the head of its list; at the threshold itself it is PendingApproval. *)
(* ------------------------------------------------------------------ *)
C1_ThresholdDeterminism ==
  [][/\ \A a \in AmountSamples :
          ApiStatus(determineApprovalStatus(a)) = InitialStatus(a)
     /\ determineApprovalStatus(AUTO_APPROVAL_THRESHOLD) = "pending"
     /\ determineApprovalStatus(AUTO_APPROVAL_THRESHOLD - 1) = "auto_approved"
     /\ Len(repo') = Len(repo) + 1 =>
          repo'[Len(repo')].status = InitialStatus(cmd.amount)
     /\ Completes("create") /\ lastResult'.outcome = "ok" =>
          /\ expenses'[1].expenseStatus = InitialStatus(cmd.amount)
          /\ expenses'[1].amount = cmd.amount
          /\ currentExpense' = expenses'[1]]_vars

C1_Witness ==
  /\ lastResult = [op |-> "create", outcome |-> "ok"]
  /\ Len(expenses) > 0
  /\ expenses[1].amount = AUTO_APPROVAL_THRESHOLD
  /\ expenses[1].expenseStatus = PENDING_APPROVAL
  /\ repo[expenses[1].id].status = PENDING_APPROVAL

(* ------------------------------------------------------------------ *)
(* C2: the Approve and Reject actions the expenses page offers the      *)
(* session user on a pending claim follow the authorization matrix:     *)
(* never for an employee, for a manager only at or above the threshold, *)
(* for an admin at every amount.                                        *)
(* ------------------------------------------------------------------ *)
C2_AuthorizationMatrix ==
  \A i \in 1..Len(expenses) :
    expenses[i].expenseStatus = PENDING_APPROVAL =>
      /\ canApproveExpense(expenses[i]) = PolicyAllows(user.role, expenses[i].amount)
      /\ canRejectExpense(expenses[i]) = PolicyAllows(user.role, expenses[i].amount)

(* ------------------------------------------------------------------ *)
(* C3: a claim becomes Approved only by an approve request, of the      *)
(* session user or of another user, handled while the claim is          *)
(* PendingApproval and the actor's role is allowed for its amount; when *)
(* the session user's approve succeeds the claim is Approved with       *)
(* processedAt set, in the Repository and in the client's list.         *)
(* ------------------------------------------------------------------ *)
C3_ApprovedOnlyThroughApprove ==
  [][/\ \A id \in Ids :
          repo'[id].status = APPROVED /\ repo[id].status # APPROVED =>
            /\ repo[id].status = PENDING_APPROVAL
            /\ PolicyAllows(repo'[id].processedBy, repo[id].amount)
            /\ repo'[id].processed_at # ""
            /\ \/ Completes("approve") /\ cmd.id = id
                    /\ repo'[id].processedBy = user.role
               \/ cmd' = cmd /\ repo'[id].processedBy \in OtherRoles
     /\ Completes("approve") /\ lastResult'.outcome = "ok" =>
          /\ repo'[cmd.id].status = APPROVED
          /\ repo'[cmd.id].processed_at # ""
          /\ findIndex(expenses', cmd.id) # 0 =>
               /\ Find(expenses', cmd.id).expenseStatus = APPROVED
               /\ Find(expenses', cmd.id).processedAt = "date"]_vars

C3_Witness ==
  /\ lastResult = [op |-> "approve", outcome |-> "ok"]
  /\ user.role = "manager"
  /\ Len(expenses) > 0
  /\ expenses[1].expenseStatus = APPROVED
  /\ expenses[1].processedAt = "date"
  /\ repo[expenses[1].id].status = APPROVED
  /\ repo[expenses[1].id].processedBy = "manager"

BlankRejectStep ==
  /\ showRejectModal
  /\ lastResult' = [op |-> "reject", outcome |-> "ignored"]
  /\ lastResult' # lastResult

(* ------------------------------------------------------------------ *)
(* C5: confirming the reject dialog with an empty or whitespace-only    *)
(* reason on a PendingApproval claim surfaces a validation error and    *)
(* changes nothing else: no reject request is started and the claim     *)
(* stays PendingApproval.                                               *)
(* ------------------------------------------------------------------ *)
C5_BlankReasonIsValidationError ==
  [][BlankRejectStep =>
       /\ error' # NoError
       /\ cmd' = cmd
       /\ inflight' = inflight
       /\ repo' = repo
       /\ expenses' = expenses]_vars

(* ------------------------------------------------------------------ *)
(* C6: in every reachable state every Rejected claim carries a          *)
(* rejectionReason, and that reason is not empty.                       *)
(* ------------------------------------------------------------------ *)
C6_RejectedHasReason ==
  \A id \in Ids :
    repo[id].status = REJECTED =>
      /\ repo[id].rejectionReason # NoReason
      /\ Len(repo[id].rejectionReason) > 0

(* The session user rejected a claim through the dialog.                 *)
C6_Witness ==
  /\ lastResult = [op |-> "reject", outcome |-> "ok"]
  /\ \E id \in Ids :
       /\ repo[id].status = REJECTED
       /\ repo[id].processedBy = user.role
       /\ repo[id].rejectionReason = <<"x">>

(* ------------------------------------------------------------------ *)
(* C7: a claim that is AutoApproved, Approved or Rejected keeps that    *)
(* status in every later step, in the Repository and in the client's    *)
(* list, whatever approve, reject and retry-payment operations follow;  *)
(* and the page opens its approve and reject dialogs only on a claim it *)
(* lists as PendingApproval.                                            *)
(* ------------------------------------------------------------------ *)
C7_TerminalStatusIsFinal ==
  [][/\ \A id \in Ids :
          repo[id].status \in Terminal => repo'[id].status = repo[id].status
     /\ \A i \in 1..Len(expenses) :
          /\ expenses[i].expenseStatus \in Terminal
          /\ findIndex(expenses', expenses[i].id) # 0
          => Find(expenses', expenses[i].id).expenseStatus = expenses[i].expenseStatus
     /\ (showApproveModal' /\ ~showApproveModal) \/ (showRejectModal' /\ ~showRejectModal) =>
          Find(expenses, selectedExpense').expenseStatus = PENDING_APPROVAL]_vars

(* A reject of an already approved claim was attempted and refused.      *)
C7_Witness ==
  /\ lastResult = [op |-> "reject", outcome |-> "InvalidTransition"]
  /\ \E id \in Ids : repo[id].status = APPROVED
  /\ Len(expenses) > 0

(* ------------------------------------------------------------------ *)
(* C8: the Repository accepts a retry-payment request exactly when the  *)
(* claim's paymentStatus is Failed, however many retries went before,   *)
(* and a retry-payment request never changes the claim's status.        *)
(* ------------------------------------------------------------------ *)
C8_RetryOnlyWhenFailed ==
  [][/\ Answered("retry") =>
          /\ (lastResult'.outcome = "ok") = (repo[cmd.id].paymentStatus = "failed")
          /\ lastResult'.outcome = "ok" =>
               /\ repo'[cmd.id].paymentStatus = "processing"
               /\ repo'[cmd.id].retries = Saturate(repo[cmd.id].retries)
     /\ Completes("retry") => repo'[cmd.id].status = repo[cmd.id].status]_vars

(* The payment failed again after a retry and was retried again.         *)
C8_Witness ==
  /\ lastResult = [op |-> "retry", outcome |-> "ok"]
  /\ \E id \in Ids :
       /\ repo[id].retries = MaxRetryCount
       /\ repo[id].paymentStatus = "processing"
       /\ repo[id].status \in {AUTO_APPROVED, APPROVED}

(* ------------------------------------------------------------------ *)
(* C9: when an approve, reject or retry-payment call of the session     *)
(* user does not succeed (refused by the Repository or failed in        *)
(* transport), the client's list and currentExpense are what they were  *)
(* before the call, an error message is set, and the client starts no   *)
(* further request by itself; a refused call leaves the Repository's    *)
(* record untouched as well.                                            *)
(* ------------------------------------------------------------------ *)
C9_FailedTransitionLeavesClaim ==
  [][\A op \in {"approve", "reject", "retry"} :
       Completes(op) /\ lastResult'.outcome # "ok" =>
         /\ expenses' = expenses
         /\ currentExpense' = currentExpense
         /\ error' # NoError
         /\ submitting' = FALSE
         /\ inflight' = inflight
         /\ Answered(op) => repo' = repo]_vars

(* An approve of a claim another manager had rejected was refused; the   *)
(* entry is still listed as pending and the dialog is still open.        *)
C9_Witness ==
  /\ lastResult = [op |-> "approve", outcome |-> "InvalidTransition"]
  /\ error = "InvalidTransition"
  /\ cmd = NoCmd
  /\ showApproveModal
  /\ Len(expenses) > 0
  /\ expenses[1].expenseStatus = PENDING_APPROVAL
  /\ repo[expenses[1].id].status = REJECTED

Validated == formResult \in {"valid", "invalid"}

DescriptionAcceptable(value) ==
  /\ StrLength(StrTrim(value)) >= MIN_DESCRIPTION_LENGTH
  /\ StrLength(value) <= MAX_DESCRIPTION_LENGTH

AmountAcceptable(value) ==
  /\ ~IsNull(value)
  /\ 0 < ValueOf(value)
  /\ ValueOf(value) <= MAX_EXPENSE_AMOUNT

ReceiptAcceptable(value) ==
  \/ IsNull(value)
  \/ /\ ValueOf(value).url # ""
     /\ ValueOf(value).filename # ""
     /\ ValueOf(value).error = ""

(* A field value that violates its rules; the dates meant are not older  *)
(* than the backdate window.                                             *)
FieldInvalid(field, value) ==
  CASE field = "description" -> ~DescriptionAcceptable(value)
    [] field = "amount" -> ~AmountAcceptable(value)
    [] field = "category" -> StrLength(StrTrim(value)) = 0
    [] field = "expenseDate" -> IsNull(value) \/ ValueOf(value) > EndOfToday
    [] field = "receiptFile" -> ~ReceiptAcceptable(value)

FieldsInError == {f \in Fields : fieldStates[f].error # NoError}

(* description "", amount -1, category "", expenseDate tomorrow          *)
FourErrorCandidate ==
  [description |-> Str(0, 0, 0), amount |-> Some(0 - 1),
   category |-> Str(0, 0, 0), expenseDate |-> Some(2), receiptFile |-> Null]

(* ------------------------------------------------------------------ *)
(* C11: validating the form evaluates every field and leaves an error   *)
(* on every field whose value violates its rules, and on no other, in   *)
(* one pass; for description "", amount -1, category "" and expenseDate *)
(* tomorrow that is exactly four errors: description, amount, category  *)
(* and expenseDate.                                                     *)
(* ------------------------------------------------------------------ *)
C11_EveryFieldValidated ==
  Validated =>
    /\ FieldsInError = {f \in Fields : FieldInvalid(f, formData[f])}
    /\ (formResult = "invalid") = (FieldsInError # {})
    /\ formData = FourErrorCandidate =>
         /\ FieldsInError = {"description", "amount", "category", "expenseDate"}
         /\ Cardinality(FieldsInError) = 4
         /\ fieldStates["description"].error = "Description is required"
         /\ fieldStates["amount"].error = "Amount must be greater than 0"
         /\ fieldStates["category"].error = "Category is required"
         /\ fieldStates["expenseDate"].error = "Expense date cannot be in the future"

C11_Witness ==
  /\ formResult = "invalid"
  /\ formData = FourErrorCandidate
  /\ Cardinality(FieldsInError) = 4
  /\ fieldStates["receiptFile"].error = NoError

(* ------------------------------------------------------------------ *)
(* C12: the amount field is left without an error by a validation      *)
(* exactly when its value is a number with 0 < amount <=               *)
(* MAX_EXPENSE_AMOUNT: null, 0 and negative amounts get an error,       *)
(* MAX_EXPENSE_AMOUNT itself gets none, MAX_EXPENSE_AMOUNT + 1 gets one. *)
(* ------------------------------------------------------------------ *)
C12_AmountAccepted ==
  Validated =>
    /\ (fieldStates["amount"].error = NoError) = AmountAcceptable(formData.amount)
    /\ formData.amount \in {Null, Some(0), Some(0 - 1)} =>
         fieldStates["amount"].error = "Amount must be greater than 0"
    /\ formData.amount = Some(MAX_EXPENSE_AMOUNT) =>
         fieldStates["amount"].error = NoError
    /\ formData.amount = Some(MAX_EXPENSE_AMOUNT + 1) =>
         fieldStates["amount"].error = "Amount must be less than 100.000.000"

C12_Witness ==
  /\ Validated
  /\ formData.amount = Some(MAX_EXPENSE_AMOUNT)
  /\ fieldStates["amount"].touched
  /\ fieldStates["amount"].error = NoError


C15_DateNotFuture ==
  Validated =>
    LET value == formData.expenseDate
        shown == fieldStates["expenseDate"].error
    IN  /\ IsNull(value) => shown = "Expense date is required"
        /\ ~IsNull(value) =>
             (shown = "Expense date cannot be in the future")
               = (ValueOf(value) > EndOfToday)
        /\ value \in {Some(0 - 2), Some(0), Some(EndOfToday)} => shown = NoError

C15_Witness ==
  /\ Validated
  /\ formData.expenseDate = Some(EndOfToday)
  /\ fieldStates["expenseDate"].touched
  /\ fieldStates["expenseDate"].error = NoError


(* ------------------------------------------------------------------ *)
(* C16: a validation leaves an error on every expense date older than  *)
(* six months before today.                                             *)
(* ------------------------------------------------------------------ *)
C16_OlderThanSixMonthsRejected ==
  Validated =>
    \A now \in Clock :
      (/\ ~IsNull(formData.expenseDate)
       /\ ValueOf(formData.expenseDate) < now - SixMonths)
        => fieldStates["expenseDate"].error # NoError


(* ------------------------------------------------------------------ *)
(* C17: a validation leaves no error on an absent receipt; on a        *)
(* present receipt it leaves none exactly when the receipt has a        *)
(* non-empty url, a non-empty filename and no upload error; a receipt   *)
(* whose upload failed makes the validation answer invalid.             *)
(* ------------------------------------------------------------------ *)
C17_ReceiptAccepted ==
  Validated =>
    /\ IsNull(formData.receiptFile) => fieldStates["receiptFile"].error = NoError
    /\ (fieldStates["receiptFile"].error = NoError)
         = ReceiptAcceptable(formData.receiptFile)
    /\ ~ReceiptAcceptable(formData.receiptFile) =>
         /\ fieldStates["receiptFile"].error
              = "Receipt file upload failed or is incomplete"
         /\ formResult = "invalid"

C17_Witness ==
  /\ formResult = "invalid"
  /\ formData.receiptFile = Some([url |-> "u", filename |-> "f", error |-> "e"])
  /\ fieldStates["receiptFile"].error
       = "Receipt file upload failed or is incomplete"


(* ------------------------------------------------------------------ *)
(* C18: a field that has not been touched shows no error, whatever its *)
(* value and whatever error a validation has recorded for it; right     *)
(* after resetForm every field is untouched, has no error, and holds    *)
(* its initial value.                                                   *)
(* ------------------------------------------------------------------ *)
C18_UntouchedShowsNoError ==
  /\ \A f \in Fields :
       ~fieldStates[f].touched => getFieldError(f) = NoError /\ ~hasFieldError(f)
  /\ formResult = "reset" =>
       /\ \A f \in Fields :
            /\ ~fieldStates[f].touched
            /\ fieldStates[f].error = NoError
            /\ getFieldError(f) = NoError
       /\ formData = initialState

C18_Witness ==
  /\ Validated
  /\ \E f \in Fields :
       /\ FieldInvalid(f, formData[f])
       /\ ~fieldStates[f].touched
       /\ fieldStates[f].error # NoError
       /\ getFieldError(f) = NoError
  /\ \E g \in Fields : fieldStates[g].touched /\ hasFieldError(g)


(* ------------------------------------------------------------------ *)
(* C19: isFormValid is false for the form as initialised and whenever  *)
(* the current value of some field violates one of its rules.           *)
(* ------------------------------------------------------------------ *)
C19_InvalidFormIsNotValid ==
  /\ formData = initialState => ~isFormValid
  /\ (\E f \in Fields : FieldInvalid(f, formData[f])) => ~isFormValid


(* ------------------------------------------------------------------ *)
(* C20: whenever a request's failure with status 401 is given to its   *)
(* caller, the access and refresh cookies have been cleared and the     *)
(* client is on the login page.                                         *)
(* ------------------------------------------------------------------ *)
AuthFailureSurfaced ==
  /\ thrown'.status = 401 \/ thrown'.response = 401
  /\ thrown' # thrown \/ request.phase = "redirecting"

C20_SessionExpiredFlow ==
  [][AuthFailureSurfaced =>
       /\ accessToken' = NoCookie
       /\ refreshToken' = NoCookie
       /\ route' = "/login"]_vars


(* ------------------------------------------------------------------ *)
(* Vocabulary of the list's properties                                  *)
(* ------------------------------------------------------------------ *)
(* the step in which the i-th list request, of this kind, completes      *)
ListRequestDone(i, kind) ==
  /\ i \in 1..Len(inflight)
  /\ inflight[i].kind = kind
  /\ inflight' = Remove(inflight, i)

Pages(params) == {result.expenses : result \in ListResponses(repo, params)}

(* ------------------------------------------------------------------ *)
(* C21: when a load-more request completes, the expenses listed before  *)
(* are all still listed, in the same order and at the same places; what *)
(* follows them is a page the Repository returns for the request, and   *)
(* nothing when the request failed.                                     *)
(* ------------------------------------------------------------------ *)
C21_LoadMoreAppends ==
  [][\A i \in 1..Len(inflight) :
       ListRequestDone(i, "more") =>
         /\ Len(expenses') >= Len(expenses)
         /\ SubSeq(expenses', 1, Len(expenses)) = expenses
         /\ SubSeq(expenses', Len(expenses) + 1, Len(expenses'))
              \in Pages(inflight[i].params)
         /\ searchParams' # inflight[i].params => expenses' = expenses]_vars

C21_Witness ==
  /\ inflight = <<>>
  /\ searchParams.offset > 0
  /\ Len(expenses) = 3
  /\ expenses[1] = expenses[3]
  /\ expenses[1] # expenses[2]


(* ------------------------------------------------------------------ *)
(* C22: when an update, approve, reject or retry-payment command for a *)
(* claim succeeds, the list entry with the claim's id, and              *)
(* currentExpense if it has that id, become the record the Repository   *)
(* returned; the list keeps its length and order and every other entry; *)
(* a list without such an entry is unchanged.                           *)
(* ------------------------------------------------------------------ *)
C22_ReturnedRecordReplacesEntry ==
  [][\A op \in {"update", "approve", "reject", "retry"} :
       Completes(op) /\ lastResult'.outcome = "ok" =>
         LET returned == transformApiExpense(ApiExpense(repo', cmd.id)) IN
         /\ Len(expenses') = Len(expenses)
         /\ \A i \in 1..Len(expenses) :
              expenses'[i] = IF expenses[i].id = cmd.id THEN returned
                             ELSE expenses[i]
         /\ currentExpense' = IF currentExpense.id = cmd.id THEN returned
                              ELSE currentExpense
         /\ (\A i \in 1..Len(expenses) : expenses[i].id # cmd.id) =>
              expenses' = expenses]_vars

(* The retry of the first expense's payment succeeded: it is listed     *)
(* second, after the expense awaiting approval, and the detail page     *)
(* holds it too.                                                        *)
C22_Witness ==
  /\ lastResult = [op |-> "retry", outcome |-> "ok"]
  /\ Len(expenses) = 2
  /\ expenses[1].id = 2
  /\ expenses[1].expenseStatus = PENDING_APPROVAL
  /\ expenses[2].id = 1
  /\ currentExpense.id = 1
  /\ repo[1].paymentStatus = "processing"


(* ------------------------------------------------------------------ *)
(* The auth store                                                       *)
(* ------------------------------------------------------------------ *)
LoggedOut ==
  /\ user = NoUser
  /\ ~isAuthenticated
  /\ accessToken = NoCookie
  /\ refreshToken = NoCookie

(* C23: logout() always ends logged out, whether its request is         *)
(* answered, fails, or is not sent for want of a token: the step that   *)
(* takes logout() past its try block leaves user null, isAuthenticated  *)
(* false and both cookies cleared with the navigation to /login         *)
(* requested, and the route is /login when logout() returns             *)
C23_LogoutEndsLoggedOut ==
  [][/\ \A i \in 1..Len(authCalls) :
          /\ Awaits(i, "logout")
          /\ Len(authCalls') = Len(authCalls)
          /\ authCalls'[i] # authCalls[i]
          => /\ LoggedOut'
             /\ authCalls'[i].await = "navigate"
     /\ /\ Len(authCalls') = Len(authCalls) + 1
        /\ authCalls'[Len(authCalls')].op = "logout"
        /\ accessToken = NoCookie
        => /\ LoggedOut'
           /\ authCalls'[Len(authCalls')].await = "navigate"
     /\ \A i \in 1..Len(authCalls) :
          /\ Awaits(i, "navigate")
          /\ authCalls[i].op = "logout"
          /\ authCalls' = Remove(authCalls, i)
          => route' = "/login"]_vars

C23_Witness ==
  /\ lastResult = [op |-> "login", outcome |-> "true"]
  /\ \E i \in 1..Len(authCalls) :
       authCalls[i] = [op |-> "logout", await |-> "navigate", sent |-> TRUE]
  /\ route = "/expenses"
  /\ LoggedOut


(* C24: login() returns true only if the store ends authenticated: on   *)
(* every step at which login() returns true, isAuthenticated is true    *)
(* and user is set                                                      *)
C24_LoginTrueMeansAuthenticated ==
  [][\A i \in 1..Len(authCalls) :
       /\ authCalls[i].op = "login"
       /\ authCalls' = Remove(authCalls, i)
       /\ lastResult' = [op |-> "login", outcome |-> "true"]
       => /\ isAuthenticated'
          /\ user' # NoUser]_vars


(* C25: in every state reached through login, fetchUser, refreshToken,  *)
(* checkAuth and logout, isAuthenticated is true exactly when user is   *)
(* set                                                                  *)
C25_AuthenticatedIffUser ==
  isAuthenticated <=> user # NoUser

C25_Witness ==
  /\ isAuthenticated
  /\ user = Profile
  /\ \E i \in 1..Len(authCalls) : authCalls[i].op = "refreshToken" /\ Awaits(i, "logout")


(* ------------------------------------------------------------------ *)
(* Requests without a token                                             *)
(* ------------------------------------------------------------------ *)
NoTokenStored == accessToken \in {NoCookie, NullString}

(* C26: a request that requires authentication is never sent without a *)
(* token: with no access token stored, or the string 'null', no such   *)
(* request goes out, and the request that fails before it is sent      *)
(* gives its caller the no-token failure, of status 401 from           *)
(* HttpClient, with the cookies and the route left as they are         *)
C26_NoTokenNoRequest ==
  [][/\ request.phase = "idle" /\ request'.phase = "sent" /\ request'.auth
        => ~NoTokenStored
     /\ request.phase = "idle" /\ request'.phase = "idle" /\ thrown' # thrown
        => /\ NoTokenStored
           /\ thrown'.message = "No authentication token available"
           /\ thrown'.response = 0
           /\ thrown'.client = "HttpClient" => thrown'.status = 401
           /\ UNCHANGED <<accessToken, refreshToken, route>>]_vars

C26_Witness ==
  /\ accessToken = NullString
  /\ refreshToken = Token
  /\ route = "/expenses"
  /\ request = Idle
  /\ thrown = NoTokenFailure("HttpClient")


(* ------------------------------------------------------------------ *)
(* Overlapping list requests                                            *)
(* ------------------------------------------------------------------ *)
(* C27: latest search wins: once every list request has completed, and  *)
(* none has failed since the last one was issued, the list and          *)
(* searchParams are those of the search issued last, here the text in   *)
(* the search box, with no rows of an earlier search or load-more       *)
C27_LatestSearchWins ==
  /\ inflight = <<>>
  /\ error = NoError
  /\ searchQuery # ""
  => /\ searchParams.search = searchQuery
     /\ \A j \in 1..Len(expenses) : Matches(expenses[j].id, searchQuery)


LoadMoresInFlight == {i \in 1..Len(inflight) : inflight[i].kind = "more"}

(* C28: at most one load-more request is in flight at any time, and the *)
(* loading flag is true for as long as any list request is outstanding  *)
C28_OneLoadMoreInFlight ==
  /\ Cardinality(LoadMoresInFlight) <= 1
  /\ inflight # <<>> => loading


(* ------------------------------------------------------------------ *)
(* Pagination after a load                                              *)
(* ------------------------------------------------------------------ *)
(* C29: after loadExpenses succeeds with a page of at most limit        *)
(* expenses at an offset of 0 or more, pagination.total is the number   *)
(* of expenses of the page and canLoadMore is false; canLoadMore is     *)
(* false whenever total is 0                                            *)
C29_NoLoadMoreAfterShortPage ==
  [][/\ \A i \in 1..Len(inflight) :
          /\ ListRequestDone(i, "load")
          /\ error' = NoError
          /\ Len(expenses') <= pagination'.limit
          /\ pagination'.offset >= 0
          => /\ pagination'.total = Len(expenses')
             /\ ~canLoadMore'
     /\ pagination.total = 0 => ~canLoadMore]_vars

C29_Witness ==
  /\ inflight = <<>>
  /\ error = NoError
  /\ ~loading
  /\ Len(expenses) = 2
  /\ pagination = [limit |-> 2, offset |-> 1, total |-> 2]
  /\ searchParams.limit = FilterLimit


(* ------------------------------------------------------------------ *)
(* Submitting the expense form                                          *)
(* ------------------------------------------------------------------ *)
(* C30: an expense form cannot be submitted twice while its create      *)
(* request is in flight: at most one createExpense call awaits its      *)
(* response, and submission is disabled while one does                  *)
C30_OneCreateInFlight ==
  /\ Len(creating) <= 1
  /\ creating # <<>> => submitDisabled

====
